---- MODULE Spec2Model ----
(***************************************************************************)
(* Command construction of hyperglass (hyperglass/command/construct.py).   *)
(*                                                                         *)
(* The module has two builders, frr (structured query for the FRR API)     *)
(* and ssh (rendered command for direct execution).  Both are functions of *)
(* (cmd, ipprefix, device) and of the process-wide command template store. *)
(* A Python str is a sequence of one-character strings; a call ends either *)
(* by returning a tuple or by raising an exception.                        *)
(***************************************************************************)
EXTENDS Integers, Sequences, FiniteSets, TLC

VARIABLES cmd, ipprefix, device, frr_result, ssh_result

vars == <<cmd, ipprefix, device, frr_result, ssh_result>>

(***************************************************************************)
(* Characters and small string helpers                                     *)
(***************************************************************************)
DigitSeq == <<"0", "1", "2", "3", "4", "5", "6", "7", "8", "9">>

HexSeq == DigitSeq \o <<"a", "b", "c", "d", "e", "f">>

UpperHex == <<"A", "B", "C", "D", "E", "F">>

Digits == {DigitSeq[i] : i \in 1..Len(DigitSeq)}

HexDigits == {HexSeq[i] : i \in 1..Len(HexSeq)} \cup {UpperHex[i] : i \in 1..Len(UpperHex)}

\* str.isspace() characters that occur in the modelled alphabet
Whitespace == {"\n", " ", "\t"}

DigitVal(c) == (CHOOSE i \in 1..Len(DigitSeq) : DigitSeq[i] = c) - 1

HexVal(c) ==
    IF c \in Digits THEN DigitVal(c)
    ELSE IF \E i \in 1..Len(HexSeq) : HexSeq[i] = c
         THEN (CHOOSE i \in 1..Len(HexSeq) : HexSeq[i] = c) - 1
         ELSE (CHOOSE i \in 1..Len(UpperHex) : UpperHex[i] = c) + 9

Front(s) == SubSeq(s, 1, Len(s) - 1)

Last(s) == s[Len(s)]

\* Values are only ever compared with 255, 32, 128 and 65535, so they
\* saturate just above 16 bits instead of growing without bound.
Saturate(n) == IF n > 65535 THEN 65536 ELSE n

RECURSIVE DecVal(_)
DecVal(s) ==
    IF s = <<>> THEN 0 ELSE Saturate(10 * DecVal(Front(s)) + DigitVal(Last(s)))

RECURSIVE HexGroupVal(_)
HexGroupVal(s) ==
    IF s = <<>> THEN 0 ELSE Saturate(16 * HexGroupVal(Front(s)) + HexVal(Last(s)))

IsDigitRun(s, lo, hi) ==
    /\ Len(s) >= lo
    /\ Len(s) <= hi
    /\ \A i \in 1..Len(s) : s[i] \in Digits

\* str.split(sep): the pieces between the occurrences of sep
RECURSIVE Split(_, _)
Split(s, sep) ==
    IF \A i \in 1..Len(s) : s[i] # sep
    THEN <<s>>
    ELSE LET p == CHOOSE i \in 1..Len(s) :
                      s[i] = sep /\ \A j \in 1..(i - 1) : s[j] # sep
         IN  <<SubSeq(s, 1, p - 1)>> \o Split(SubSeq(s, p + 1, Len(s)), sep)

\* str.split(sep, 1): at most one split, at the first occurrence
SplitFirst(s, sep) ==
    IF \A i \in 1..Len(s) : s[i] # sep
    THEN <<s>>
    ELSE LET p == CHOOSE i \in 1..Len(s) :
                      s[i] = sep /\ \A j \in 1..(i - 1) : s[j] # sep
         IN  <<SubSeq(s, 1, p - 1), SubSeq(s, p + 1, Len(s))>>

\* str.strip(): leading and trailing whitespace removed
RECURSIVE Strip(_)
Strip(s) ==
    IF s = <<>> THEN s
    ELSE IF s[1] \in Whitespace THEN Strip(Tail(s))
    ELSE IF Last(s) \in Whitespace THEN Strip(Front(s))
    ELSE s

\* int(s) of Python: surrounding whitespace is ignored, then decimal digits.
\* (Sign and underscore forms use characters outside the modelled alphabet.)
PyIntOk(s) == IsDigitRun(Strip(s), 1, Len(s))

PyIntVal(s) == DecVal(Strip(s))

(***************************************************************************)
(* re.match of the patterns used by the builders                           *)
(***************************************************************************)
\* "$" matches at the end of the string and also just before a newline
\* that is the last character of the string: the texts a body between
\* "^" and "$" may span.
DollarAnchored(s) ==
    {s} \cup (IF Len(s) > 0 /\ Last(s) = "\n" THEN {Front(s)} ELSE {})

NewFormatBody(s) ==
    LET parts == Split(s, ":")
    IN  /\ Len(parts) = 2
        /\ IsDigitRun(parts[1], 0, 5)
        /\ IsDigitRun(parts[2], 1, 5)

Bit32Body(s) == IsDigitRun(s, 1, 10)

LargeBody(s) ==
    LET parts == Split(s, ":")
    IN  /\ Len(parts) = 3
        /\ \A i \in 1..3 : IsDigitRun(parts[i], 1, 10)

\* re.match("^([0-9]{0,5})\:([0-9]{1,5})$", s)
MatchNewFormat(s) == \E t \in DollarAnchored(s) : NewFormatBody(t)

\* re.match("^[0-9]{1,10}$", s)
MatchBit32(s) == \E t \in DollarAnchored(s) : Bit32Body(t)

\* re.match("^([0-9]{1,10})\:([0-9]{1,10})\:[0-9]{1,10}$", s)
MatchLarge(s) == \E t \in DollarAnchored(s) : LargeBody(t)

\* re.match(".*", s): some prefix of s without a newline, the empty one included
MatchDotStar(s) == \E k \in 0..Len(s) : \A i \in 1..k : s[i] # "\n"

(***************************************************************************)
(* netaddr.IPNetwork(s).ip.version                                         *)
(***************************************************************************)
Pow2(k) == 2 ^ k

\* IPAddress.is_netmask over the address words, most significant first
IsNetmask(vals, w) ==
    LET max == Pow2(w) - 1
    IN  \E i \in 1..Len(vals) :
            /\ \A j \in 1..(i - 1) : vals[j] = max
            /\ \A j \in (i + 1)..Len(vals) : vals[j] = 0
            /\ \E k \in 0..w : vals[i] = max - (Pow2(k) - 1)

\* IPAddress.is_hostmask
IsHostmask(vals, w) ==
    LET max == Pow2(w) - 1
    IN  \E i \in 1..Len(vals) :
            /\ \A j \in 1..(i - 1) : vals[j] = 0
            /\ \A j \in (i + 1)..Len(vals) : vals[j] = max
            /\ \E k \in 0..w : vals[i] = Pow2(k) - 1

\* inet_pton(AF_INET, s): four octets, one to three digits each, no leading zero
StrictV4(s) ==
    LET toks == Split(s, ".")
    IN  /\ Len(toks) = 4
        /\ \A i \in 1..4 :
              /\ IsDigitRun(toks[i], 1, 3)
              /\ (Len(toks[i]) > 1 => toks[i][1] # "0")
              /\ DecVal(toks[i]) <= 255

StrictV4Vals(s) == LET toks == Split(s, ".") IN [i \in 1..4 |-> DecVal(toks[i])]

\* parse_ip_network for IPv4: a strict address, else
\* expand_partial_address (one to four int() tokens, padded with zeros)
PartialV4(s) ==
    /\ \A i \in 1..Len(s) : s[i] # ":"
    /\ LET toks == Split(s, ".")
       IN  /\ Len(toks) \in 1..4
           /\ \A i \in 1..Len(toks) : PyIntOk(toks[i]) /\ PyIntVal(toks[i]) <= 255

\* The colon-separated pieces of an IPv6 text once a leading or trailing
\* "::" has given up its outer empty piece; <<>> among them is the "::" gap.
V6Core(s) ==
    LET parts == Split(s, ":")
        n == Len(parts)
        lo == IF parts[1] = <<>> THEN 2 ELSE 1
        hi == IF parts[n] = <<>> THEN n - 1 ELSE n
    IN  SubSeq(parts, lo, hi)

V6EdgesOk(s) ==
    LET parts == Split(s, ":")
        n == Len(parts)
    IN  /\ s # <<>>
        /\ parts[1] = <<>> => (n >= 2 /\ parts[2] = <<>>)
        /\ parts[n] = <<>> => (n >= 2 /\ parts[n - 1] = <<>>)

V6PieceOk(core, i) ==
    \/ core[i] = <<>>
    \/ /\ Len(core[i]) \in 1..4
       /\ \A j \in 1..Len(core[i]) : core[i][j] \in HexDigits
    \/ i = Len(core) /\ StrictV4(core[i])

V6PieceWords(core, i) ==
    IF core[i] = <<>> THEN 0
    ELSE IF i = Len(core) /\ StrictV4(core[i]) THEN 2 ELSE 1

RECURSIVE SumWords(_, _)
SumWords(core, i) ==
    IF i = 0 THEN 0 ELSE SumWords(core, i - 1) + V6PieceWords(core, i)

\* inet_pton(AF_INET6, s)
StrictV6(s) ==
    /\ V6EdgesOk(s)
    /\ LET core == V6Core(s)
           gaps == {i \in 1..Len(core) : core[i] = <<>>}
           words == SumWords(core, Len(core))
       IN  /\ \A i \in 1..Len(core) : V6PieceOk(core, i)
           /\ Cardinality(gaps) <= 1
           /\ IF gaps = {} THEN words = 8 ELSE words <= 7

V6PieceVals(core, i) ==
    IF i = Len(core) /\ StrictV4(core[i])
    THEN LET o == StrictV4Vals(core[i])
         IN  <<256 * o[1] + o[2], 256 * o[3] + o[4]>>
    ELSE <<HexGroupVal(core[i])>>

RECURSIVE V6Concat(_, _, _)
V6Concat(core, from, to) ==
    IF from > to THEN <<>>
    ELSE V6PieceVals(core, from) \o V6Concat(core, from + 1, to)

\* The eight 16-bit words of a valid IPv6 text
StrictV6Vals(s) ==
    LET core == V6Core(s)
        gaps == {i \in 1..Len(core) : core[i] = <<>>}
    IN  IF gaps = {} THEN V6Concat(core, 1, Len(core))
        ELSE LET g == CHOOSE i \in gaps : TRUE
                 left == V6Concat(core, 1, g - 1)
                 right == V6Concat(core, g + 1, Len(core))
             IN  left \o [i \in 1..(8 - Len(left) - Len(right)) |-> 0] \o right

\* The prefix part of parse_ip_network: int(val2) within the width, else a
\* netmask or hostmask of the same family; anything else raises.
PrefixLenOk(val2, width) == PyIntOk(val2) /\ PyIntVal(val2) <= width

MaskV4(s) ==
    /\ \A i \in 1..Len(s) : s[i] # "/"
    /\ StrictV4(s)
    /\ IsNetmask(StrictV4Vals(s), 8) \/ IsHostmask(StrictV4Vals(s), 8)

MaskV6(s) ==
    /\ \A i \in 1..Len(s) : s[i] # "/"
    /\ StrictV6(s)
    /\ IsNetmask(StrictV6Vals(s), 16) \/ IsHostmask(StrictV6Vals(s), 16)

ParsesAsV4(s) ==
    LET pieces == SplitFirst(s, "/")
    IN  /\ PartialV4(pieces[1])
        /\ \/ Len(pieces) = 1
           \/ PrefixLenOk(pieces[2], 32)
           \/ ~PyIntOk(pieces[2]) /\ MaskV4(pieces[2])

ParsesAsV6(s) ==
    LET pieces == SplitFirst(s, "/")
    IN  /\ StrictV6(pieces[1])
        /\ \/ Len(pieces) = 1
           \/ PrefixLenOk(pieces[2], 128)
           \/ ~PyIntOk(pieces[2]) /\ MaskV6(pieces[2])

\* IPNetwork(s).ip.version: 4 or 6, or 0 when the constructor raises
IPNetworkVersion(s) ==
    IF ParsesAsV4(s) THEN 4 ELSE IF ParsesAsV6(s) THEN 6 ELSE 0

(***************************************************************************)
(* Status codes, devices and the command template store                    *)
(***************************************************************************)
\* class codes
code == [success |-> 200, warning |-> 405, danger |-> 415]

\* A literal text taken as one piece of a str
Chars(text) == <<text>>

\* f"{arg}<post>" and f"<pre>{arg}<post>"
FStr(pre, arg, post) == (IF pre = "" THEN <<>> ELSE <<pre>>) \o arg \o <<post>>

\* A command template is a format string: literal text and {named} fields
Text(t) == [lit |-> t, ph |-> ""]

Field(n) == [lit |-> "", ph |-> n]

NoEntries == [c \in {} |-> <<>>]

\* configuration.commands(): vendor type -> list holding one table of the
\* three template groups.  "cisco_ios" is complete.  "juniper" is a store
\* with gaps: no dual entries, no ipv4 ping/traceroute, no ipv6 bgp_route,
\* and an ipv6 traceroute template that names the wrong source field.
commands ==
    [cisco_ios |->
        <<[dual |->
              [bgp_community |-> <<Text("show bgp all community "), Field("target")>>,
               bgp_aspath |-> <<Text("show bgp all quote-regexp "), Field("target")>>],
           ipv4 |->
              [bgp_route |-> <<Text("show bgp ipv4 unicast "), Field("target")>>,
               ping |-> <<Text("ping "), Field("target"), Text(" source "),
                          Field("src_addr_ipv4")>>,
               traceroute |-> <<Text("traceroute "), Field("target"),
                                Text(" source "), Field("src_addr_ipv4")>>],
           ipv6 |->
              [bgp_route |-> <<Text("show bgp ipv6 unicast "), Field("target")>>,
               ping |-> <<Text("ping ipv6 "), Field("target"), Text(" source "),
                          Field("src_addr_ipv6")>>,
               traceroute |-> <<Text("traceroute ipv6 "), Field("target"),
                                Text(" source "), Field("src_addr_ipv6")>>]]>>,
     juniper |->
        <<[dual |-> NoEntries,
           ipv4 |->
              [bgp_route |-> <<Text("show route protocol bgp table inet.0 "),
                               Field("target")>>],
           ipv6 |->
              [ping |-> <<Text("ping inet6 "), Field("target"), Text(" source "),
                          Field("src_addr_ipv6")>>,
               traceroute |-> <<Text("traceroute inet6 "), Field("target"),
                                Text(" source "), Field("src_addr_ipv4")>>]]>>]

\* configuration.devices()["router"]: the last one runs a vendor type the
\* template store does not know
routers_list ==
    {[address |-> "192.0.2.1", src_addr_ipv4 |-> "192.0.2.11",
      src_addr_ipv6 |-> "2001:db8::11", location |-> "pop1", name |-> "edge1",
      port |-> "22", type |-> "cisco_ios"],
     [address |-> "192.0.2.2", src_addr_ipv4 |-> "192.0.2.12",
      src_addr_ipv6 |-> "2001:db8::12", location |-> "pop2", name |-> "edge2",
      port |-> "22", type |-> "juniper"],
     [address |-> "192.0.2.3", src_addr_ipv4 |-> "192.0.2.13",
      src_addr_ipv6 |-> "2001:db8::13", location |-> "pop3", name |-> "edge3",
      port |-> "22", type |-> "frr_legacy"]}

\* The names every call binds before it dispatches on cmd
DeviceLocals ==
    {"d_address", "d_src_addr_ipv4", "d_src_addr_ipv6", "d_location", "d_name",
     "d_port", "d_type", "cmd", "ipprefix", "device"}

(***************************************************************************)
(* json.dumps and str.format                                               *)
(***************************************************************************)
\* The characters json.dumps escapes inside a string
RECURSIVE JsonEscape(_)
JsonEscape(s) ==
    IF s = <<>> THEN <<>>
    ELSE (IF s[1] = "\n" THEN <<"\\", "n">>
          ELSE IF s[1] = "\\" THEN <<"\\", "\\">>
          ELSE IF s[1] = "\"" THEN <<"\\", "\"">>
          ELSE <<s[1]>>) \o JsonEscape(Tail(s))

\* json.dumps of a dict of strings: its members in insertion order, each
\* value as the quoted, escaped JSON string
JsonString(s) == <<"\"">> \o JsonEscape(s) \o <<"\"">>

json_dumps(pairs) ==
    [i \in 1..Len(pairs) |-> <<pairs[i][1], JsonString(pairs[i][2])>>]

RECURSIVE Substitute(_, _)
Substitute(mc, kwargs) ==
    IF mc = <<>> THEN <<>>
    ELSE (IF mc[1].ph = "" THEN <<mc[1].lit>> ELSE kwargs[mc[1].ph])
         \o Substitute(Tail(mc), kwargs)

\* mc.format(**kwargs): KeyError when the template names a field not passed
str_format(mc, kwargs) ==
    IF \A i \in 1..Len(mc) : mc[i].ph = "" \/ mc[i].ph \in DOMAIN kwargs
    THEN [ok |-> TRUE, value |-> Substitute(mc, kwargs)]
    ELSE [ok |-> FALSE, value |-> <<>>]

(***************************************************************************)
(* Outcomes of a call                                                      *)
(***************************************************************************)
Pending == [kind |-> "pending", value |-> <<>>, exc |-> ""]

FrrReturn(t) == [kind |-> "return", value |-> t, exc |-> ""]

FrrRaise(e) == [kind |-> "raise", value |-> <<>>, exc |-> e]

NoKwargs == [n \in {} |-> <<>>]

\* ssh outcomes also record which template group the call indexed ("none"
\* when it indexed none) and the keyword arguments it handed to mc.format
SshPending ==
    [kind |-> "pending", value |-> <<>>, exc |-> "", group |-> "none",
     kwargs |-> NoKwargs, formatted |-> FALSE]

SshReturn(t, g, kw, f) ==
    [kind |-> "return", value |-> t, exc |-> "", group |-> g, kwargs |-> kw,
     formatted |-> f]

SshRaise(e, g, kw, f) ==
    [kind |-> "raise", value |-> <<>>, exc |-> e, group |-> g, kwargs |-> kw,
     formatted |-> f]

(***************************************************************************)
(* frr(cmd, ipprefix, device)                                              *)
(***************************************************************************)
\* A statement that reads the locals `names` when only `bound` are bound
\* raises UnboundLocalError; otherwise it ends as `outcome`.
FrrReading(names, bound, outcome) ==
    IF names \subseteq bound THEN outcome ELSE FrrRaise("UnboundLocalError")

frr_bgp_community(c, ip, dev) ==
    LET query == json_dumps(<<<<"cmd", Chars(c)>>, <<"afi", Chars("dual")>>,
                              <<"target", ip>>>>)
        bound == DeviceLocals \cup {"query", "msg"}
    IN  IF MatchNewFormat(ip)
        THEN FrrReturn(<<FStr("", ip, " matched new-format community."),
                         code.success, dev.address, query>>)
        ELSE IF MatchBit32(ip)
        THEN FrrReturn(<<FStr("", ip, " matched 32 bit community."),
                         code.success, dev.address, query>>)
        ELSE IF MatchLarge(ip)
        THEN FrrReturn(<<FStr("", ip, " matched large community."),
                         code.success, dev.address, query>>)
        ELSE FrrReading({"msg", "d_name", "query", "d_address"}, bound,
                 FrrReturn(<<FStr("", ip, " is an invalid BGP Community Format."),
                             code.danger, dev.address, query>>))

frr_bgp_aspath(c, ip, dev) ==
    IF MatchDotStar(ip)
    THEN FrrReturn(<<FStr("", ip, " matched AS_PATH regex."), code.success,
                     dev.address,
                     json_dumps(<<<<"cmd", Chars(c)>>, <<"afi", Chars("dual")>>,
                                  <<"target", ip>>>>)>>)
    ELSE FrrReading({"msg", "d_name", "cmd", "ipprefix", "d_address", "query"},
             DeviceLocals \cup {"msg"},
             FrrReturn(<<FStr("", ip, " is an invalid AS_PATH regex."),
                         code.danger, dev.address, <<>>>>))

frr_bgp_route(c, ip, dev) ==
    LET v == IPNetworkVersion(ip)
    IN  IF v = 4
        THEN FrrReturn(<<FStr("", ip, " is a valid IPv4 Adddress."), code.success,
                         dev.address,
                         json_dumps(<<<<"cmd", Chars(c)>>, <<"afi", Chars("ipv4")>>,
                                      <<"target", ip>>>>)>>)
        ELSE IF v = 6
        THEN FrrReturn(<<FStr("", ip, " is a valid IPv6 Adddress."), code.success,
                         dev.address,
                         json_dumps(<<<<"cmd", Chars(c)>>, <<"afi", Chars("ipv6")>>,
                                      <<"target", ip>>>>)>>)
        \* except: IPNetwork raised before any assignment to query
        ELSE FrrReading({"msg", "d_name", "query", "d_address"},
                 DeviceLocals \cup {"msg"},
                 FrrReturn(<<FStr("", ip, " is an invalid IP Address."),
                             code.danger, dev.address, <<>>>>))

\* frr_ping_traceroute with the two source addresses exchanged
frr_ping_traceroute_swapped_source(c, ip, dev) ==
    LET v == IPNetworkVersion(ip)
    IN  IF v = 4
        THEN FrrReturn(<<FStr("", ip, " is a valid IPv4 Adddress."), code.success,
                         dev.address,
                         json_dumps(<<<<"cmd", Chars(c)>>, <<"afi", Chars("ipv4")>>,
                                      <<"source", Chars(dev.src_addr_ipv6)>>,
                                      <<"target", ip>>>>)>>)
        ELSE IF v = 6
        THEN FrrReturn(<<FStr("", ip, " is a valid IPv6 Adddress."), code.success,
                         dev.address,
                         json_dumps(<<<<"cmd", Chars(c)>>, <<"afi", Chars("ipv6")>>,
                                      <<"source", Chars(dev.src_addr_ipv4)>>,
                                      <<"target", ip>>>>)>>)
        ELSE FrrRaise("UnboundLocalError")

frr_ping_traceroute(c, ip, dev) ==
    LET v == IPNetworkVersion(ip)
    IN  IF v = 4
        THEN FrrReturn(<<FStr("", ip, " is a valid IPv4 Adddress."), code.success,
                         dev.address,
                         json_dumps(<<<<"cmd", Chars(c)>>, <<"afi", Chars("ipv4")>>,
                                      <<"source", Chars(dev.src_addr_ipv4)>>,
                                      <<"target", ip>>>>)>>)
        ELSE IF v = 6
        THEN FrrReturn(<<FStr("", ip, " is a valid IPv6 Adddress."), code.success,
                         dev.address,
                         json_dumps(<<<<"cmd", Chars(c)>>, <<"afi", Chars("ipv6")>>,
                                      <<"source", Chars(dev.src_addr_ipv6)>>,
                                      <<"target", ip>>>>)>>)
        ELSE FrrReading({"msg", "d_name", "query"}, DeviceLocals \cup {"msg"},
                 FrrReturn(<<FStr("", ip, " is an invalid IP Address."),
                             code.danger, dev.name, <<>>>>))

frr(c, ip, dev) ==
    IF c \in {"bgp_community"} THEN frr_bgp_community(c, ip, dev)
    ELSE IF c \in {"bgp_aspath"} THEN frr_bgp_aspath(c, ip, dev)
    ELSE IF c \in {"bgp_route"} THEN frr_bgp_route(c, ip, dev)
    ELSE IF c \in {"ping", "traceroute"} THEN frr_ping_traceroute(c, ip, dev)
    ELSE FrrReading({"msg", "d_name", "query"}, DeviceLocals \cup {"msg"},
             FrrReturn(<<FStr("Command ", Chars(c), " not found."), code.danger,
                         dev.name, <<>>>>))

(***************************************************************************)
(* ssh(cmd, ipprefix, device)                                              *)
(***************************************************************************)
\* class command, __init__(self, type): the three groups of a known vendor
\* type.  For an unknown one __init__ returns a tuple, which the interpreter
\* turns into TypeError ("__init__() should return None, not 'tuple'").
command_init(type) ==
    IF type \in DOMAIN commands
    THEN [exc |-> "", dual |-> commands[type][1].dual,
          ipv4 |-> commands[type][1].ipv4, ipv6 |-> commands[type][1].ipv6]
    ELSE [exc |-> "TypeError", dual |-> NoEntries, ipv4 |-> NoEntries,
          ipv6 |-> NoEntries]

\* mc = c.<group>[cmd]; command = mc.format(**kwargs);
\* return (msg, code.success, d_address, d_type, command)
ssh_render(c, dev, gname, group, kwargs, msg) ==
    IF c \notin DOMAIN group
    THEN SshRaise("KeyError", gname, NoKwargs, FALSE)
    ELSE LET r == str_format(group[c], kwargs)
         IN  IF r.ok
             THEN SshReturn(<<msg, code.success, dev.address, dev.type, r.value>>,
                            gname, kwargs, TRUE)
             ELSE SshRaise("KeyError", gname, kwargs, TRUE)

\* try: <body> except: return the "invalid IP Address" tuple.  The bare
\* except takes every exception the body raised, whatever raised it.
ssh_except_invalid_ip(body, c, ip, dev) ==
    IF body.kind = "raise"
    THEN SshReturn(<<FStr("", ip, " is an invalid IP Address."), code.danger,
                     dev.name, c, ip>>, body.group, body.kwargs, body.formatted)
    ELSE body

ssh_bgp_community(c, ip, dev, cls) ==
    IF MatchNewFormat(ip)
    THEN ssh_render(c, dev, "dual", cls.dual, [target |-> ip],
                    FStr("", ip, " matched new-format community."))
    ELSE IF MatchBit32(ip)
    THEN ssh_render(c, dev, "dual", cls.dual, [target |-> ip],
                    FStr("", ip, " matched 32 bit community."))
    ELSE IF MatchLarge(ip)
    THEN ssh_render(c, dev, "dual", cls.dual, [target |-> ip],
                    FStr("", ip, " matched large community."))
    ELSE SshReturn(<<FStr("", ip, " is an invalid BGP Community Format."),
                     code.danger, dev.name, c, ip>>, "none", NoKwargs, FALSE)

ssh_bgp_aspath(c, ip, dev, cls) ==
    IF MatchDotStar(ip)
    THEN ssh_render(c, dev, "dual", cls.dual, [target |-> ip],
                    FStr("", ip, " matched AS_PATH regex."))
    ELSE SshReturn(<<FStr("", ip, " is an invalid AS_PATH regex."), code.danger,
                     dev.name, c, ip>>, "none", NoKwargs, FALSE)

\* ssh_bgp_route taking the IPv6 group for an IPv4 target
ssh_bgp_route_wrong_group(c, ip, dev, cls) ==
    LET v == IPNetworkVersion(ip)
        body ==
            IF v = 4
            THEN ssh_render(c, dev, "ipv6", cls.ipv6, [target |-> ip],
                            FStr("", ip, " is a valid IPv4 Adddress."))
            ELSE IF v = 6
            THEN ssh_render(c, dev, "ipv6", cls.ipv6, [target |-> ip],
                            FStr("", ip, " is a valid IPv6 Adddress."))
            ELSE SshRaise("AddrFormatError", "none", NoKwargs, FALSE)
    IN  ssh_except_invalid_ip(body, c, ip, dev)

ssh_bgp_route(c, ip, dev, cls) ==
    LET v == IPNetworkVersion(ip)
        body ==
            IF v = 4
            THEN ssh_render(c, dev, "ipv4", cls.ipv4, [target |-> ip],
                            FStr("", ip, " is a valid IPv4 Adddress."))
            ELSE IF v = 6
            THEN ssh_render(c, dev, "ipv6", cls.ipv6, [target |-> ip],
                            FStr("", ip, " is a valid IPv6 Adddress."))
            ELSE SshRaise("AddrFormatError", "none", NoKwargs, FALSE)
    IN  ssh_except_invalid_ip(body, c, ip, dev)

ssh_ping_traceroute(c, ip, dev, cls) ==
    LET v == IPNetworkVersion(ip)
        body ==
            IF v = 4
            THEN ssh_render(c, dev, "ipv4", cls.ipv4,
                            [target |-> ip,
                             src_addr_ipv4 |-> Chars(dev.src_addr_ipv4)],
                            FStr("", ip, " is a valid IPv4 Adddress."))
            ELSE IF v = 6
            THEN ssh_render(c, dev, "ipv6", cls.ipv6,
                            [target |-> ip,
                             src_addr_ipv6 |-> Chars(dev.src_addr_ipv6)],
                            FStr("", ip, " is a valid IPv6 Adddress."))
            ELSE SshRaise("AddrFormatError", "none", NoKwargs, FALSE)
    IN  ssh_except_invalid_ip(body, c, ip, dev)

ssh(c, ip, dev) ==
    LET cls == command_init(dev.type)
    IN  IF cls.exc # "" THEN SshRaise(cls.exc, "none", NoKwargs, FALSE)
        ELSE IF c = "bgp_community" THEN ssh_bgp_community(c, ip, dev, cls)
        ELSE IF c = "bgp_aspath" THEN ssh_bgp_aspath(c, ip, dev, cls)
        ELSE IF c = "bgp_route" THEN ssh_bgp_route(c, ip, dev, cls)
        ELSE IF c \in {"ping", "traceroute"} THEN ssh_ping_traceroute(c, ip, dev, cls)
        ELSE SshReturn(<<FStr("Command ", Chars(c), " not found."), code.danger,
                         dev.name, c, ip>>, "none", NoKwargs, FALSE)

(***************************************************************************)
(* Inputs                                                                  *)
(***************************************************************************)
\* The enumerated query types, and the query types a request may carry:
\* those and two strings outside the set
QueryTypes == {"bgp_community", "bgp_aspath", "bgp_route", "ping", "traceroute"}

RequestedTypes == QueryTypes \cup {"whois", ""}

\* Every string over Alphabet up to MaxLen characters
MaxLen == 3

Alphabet == {"1", ":", ".", "/", "g", "\n"}

ShortTargets == UNION {[1..n -> Alphabet] : n \in 0..MaxLen}

\* Digit runs joined by colons, up to MaxGroups runs, with and without a
\* trailing newline.  The run lengths sit on both sides of the patterns'
\* bounds {0,5}, {1,5} and {1,10}.
MaxGroups == 3

RunLengths == {0, 1, 5, 6, 10, 11}

Run(n) == [i \in 1..n |-> "7"]

RECURSIVE JoinRuns(_)
JoinRuns(lens) ==
    IF Len(lens) = 1 THEN Run(lens[1])
    ELSE Run(lens[1]) \o <<":">> \o JoinRuns(Tail(lens))

CommunityTargets ==
    UNION {{JoinRuns(lens) \o nl : lens \in [1..n -> RunLengths], nl \in {<<>>, <<"\n">>}} :
              n \in 1..MaxGroups}

\* Addresses and prefixes too long for ShortTargets, and the community
\* strings "65000:100", "4200000000", "1:2:3", "abc"
SampleTargets ==
    {<<"6", "5", "0", "0", "0", ":", "1", "0", "0">>,
     <<"4", "2", "0", "0", "0", "0", "0", "0", "0", "0">>,
     <<"1", ":", "2", ":", "3">>,
     <<"a", "b", "c">>,
     <<"1", "9", "2", ".", "0", ".", "2", ".", "1">>,
     <<"1", "9", "2", ".", "0", ".", "2", ".", "0", "/", "2", "4">>,
     <<"1", "9", "2", ".", "0", ".", "2", ".", "0", "/", "3", "3">>,
     <<"2", "5", "6", ".", "0", ".", "2", ".", "1">>,
     <<"1", "9", "2", ".", "0", ".", "2", ".", "0", "/", "2", "5", "5", ".", "2", "5", "5", ".", "2", "5", "5", ".", "0">>,
     <<"2", "0", "0", "1", ":", "d", "b", "8", ":", ":", "1">>,
     <<"2", "0", "0", "1", ":", "d", "b", "8", ":", ":", "/", "3", "2">>,
     <<"2", "0", "0", "1", ":", "d", "b", "8", ":", ":", "/", "1", "2", "9">>,
     <<"1", ":", "2", ":", "3", ":", "4", ":", "5", ":", "6", ":", "7", ":", "8">>,
     <<"1", ":", "2", ":", "3", ":", "4", ":", "5", ":", "6", ":", "7", ":", "8", ":", "9">>,
     <<":", ":", "f", "f", "f", "f", ":", "1", "9", "2", ".", "0", ".", "2", ".", "1">>,
     <<"2", "0", "0", "1", ":", "d", "b", "8", ":", ":", "g">>,
     <<"2", "0", "0", "1", ":", "d", "b", "8", ":", ":", "1", "\n">>,
     <<"1", "9", "2", ".", "0", ".", "2", ".", "1", "\n">>}

Targets == ShortTargets \cup CommunityTargets \cup SampleTargets

(***************************************************************************)
(* One request: the caller picks (cmd, ipprefix, device) and may call      *)
(* either builder on it; the builders keep no state between calls.         *)
(***************************************************************************)
Init ==
    /\ cmd \in RequestedTypes
    /\ ipprefix \in Targets
    /\ device \in routers_list
    /\ frr_result = Pending
    /\ ssh_result = SshPending

CallFrr ==
    /\ frr_result.kind = "pending"
    /\ frr_result' = frr(cmd, ipprefix, device)
    /\ UNCHANGED <<cmd, ipprefix, device, ssh_result>>

CallSsh ==
    /\ ssh_result.kind = "pending"
    /\ ssh_result' = ssh(cmd, ipprefix, device)
    /\ UNCHANGED <<cmd, ipprefix, device, frr_result>>

Next == CallFrr \/ CallSsh

Spec == Init /\ [][Next]_vars

(***************************************************************************)
(* Vocabulary of the properties                                            *)
(***************************************************************************)
FrrDone == frr_result.kind # "pending"

SshDone == ssh_result.kind # "pending"

FrrReturned == frr_result.kind = "return"

SshReturned == ssh_result.kind = "return"

AddressQueries == {"bgp_route", "ping", "traceroute"}

KnownVendor == device.type \in DOMAIN commands

\* The vendor's three groups hold an entry for every query type they serve
CompleteVendor ==
    /\ KnownVendor
    /\ {"bgp_community", "bgp_aspath"} \subseteq DOMAIN commands[device.type][1].dual
    /\ AddressQueries \subseteq DOMAIN commands[device.type][1].ipv4
    /\ AddressQueries \subseteq DOMAIN commands[device.type][1].ipv6

Family(v) == IF v = 4 THEN "ipv4" ELSE "ipv6"

OtherFamily(v) == IF v = 4 THEN "ipv6" ELSE "ipv4"

SourceOf(dev, fam) == IF fam = "ipv4" THEN dev.src_addr_ipv4 ELSE dev.src_addr_ipv6

HasKey(query, key) == \E i \in 1..Len(query) : query[i][1] = key

Member(query, key) == query[CHOOSE i \in 1..Len(query) : query[i][1] = key][2]

GroupOf(vendor, fam) ==
    IF fam = "dual" THEN commands[vendor][1].dual
    ELSE IF fam = "ipv4" THEN commands[vendor][1].ipv4
    ELSE commands[vendor][1].ipv6

Placeholders(mc) == {mc[i].ph : i \in 1..Len(mc)} \ {""}

\* The fields the builder passes to a template of this query type and family
PassedFields(c, fam) ==
    IF c \in {"ping", "traceroute"} THEN {"target", "src_addr_" \o fam}
    ELSE {"target"}

\* The plain community syntaxes, the whole target and nothing after it
IsCommunity(s) == NewFormatBody(s) \/ Bit32Body(s) \/ LargeBody(s)

CommunityMessage(s) ==
    IF NewFormatBody(s) THEN FStr("", s, " matched new-format community.")
    ELSE IF Bit32Body(s) THEN FStr("", s, " matched 32 bit community.")
    ELSE FStr("", s, " matched large community.")

(***************************************************************************)
(* C1: for a query type outside the enumerated set and any target, both    *)
(* builders (ssh on a device of a known vendor type) return danger with    *)
(* the message "Command <query_type> not found."; neither raises.          *)
(***************************************************************************)
C1_UnknownQueryTypeIsDanger ==
    cmd \notin QueryTypes =>
        /\ FrrDone =>
              /\ FrrReturned
              /\ frr_result.value[2] = code.danger
              /\ frr_result.value[1] = FStr("Command ", Chars(cmd), " not found.")
        /\ (SshDone /\ KnownVendor) =>
              /\ SshReturned
              /\ ssh_result.value[2] = code.danger
              /\ ssh_result.value[1] = FStr("Command ", Chars(cmd), " not found.")

(***************************************************************************)
(* C2: on a device whose vendor type has no entry in the template store,   *)
(* ssh returns danger with "<vendor_type> is an unsupported network        *)
(* operating system." for every query type and target, and reaches no      *)
(* template lookup and no mc.format.                                       *)
(***************************************************************************)
C2_UnknownVendorIsDanger ==
    (SshDone /\ ~KnownVendor) =>
        /\ SshReturned
        /\ ssh_result.value[2] = code.danger
        /\ ssh_result.value[1] =
              FStr("", Chars(device.type), " is an unsupported network operating system.")
        /\ ssh_result.group = "none"
        /\ ~ssh_result.formatted

(***************************************************************************)
(* C3: for a target that does not parse as an address or prefix and a      *)
(* query type among bgp_route, ping, traceroute, both builders return      *)
(* danger with "<target> is an invalid IP Address."; no exception escapes. *)
(***************************************************************************)
C3_UnparseableTargetIsDanger ==
    (cmd \in AddressQueries /\ IPNetworkVersion(ipprefix) = 0) =>
        /\ FrrDone =>
              /\ FrrReturned
              /\ frr_result.value[2] = code.danger
              /\ frr_result.value[1] = FStr("", ipprefix, " is an invalid IP Address.")
        /\ (SshDone /\ KnownVendor) =>
              /\ SshReturned
              /\ ssh_result.value[2] = code.danger
              /\ ssh_result.value[1] = FStr("", ipprefix, " is an invalid IP Address.")

(***************************************************************************)
(* C4: for bgp_aspath both builders return success with family dual for    *)
(* every non-empty target and a non-success status for the empty target.   *)
(***************************************************************************)
C4_AspathRejectsOnlyEmpty ==
    cmd = "bgp_aspath" =>
        /\ FrrDone =>
              /\ FrrReturned
              /\ IF ipprefix # <<>>
                 THEN /\ frr_result.value[2] = code.success
                      /\ Member(frr_result.value[4], "afi") = JsonString(Chars("dual"))
                 ELSE frr_result.value[2] # code.success
        /\ (SshDone /\ CompleteVendor) =>
              /\ SshReturned
              /\ IF ipprefix # <<>>
                 THEN ssh_result.value[2] = code.success /\ ssh_result.group = "dual"
                 ELSE ssh_result.value[2] # code.success

(***************************************************************************)
(* C5: in ssh, on a known vendor type and with a target valid for the      *)
(* query type, a template group without an entry for the query type ends   *)
(* the call in an error that propagates to the caller; it is never turned  *)
(* into a returned tuple such as the "invalid IP Address" one.             *)
(***************************************************************************)
TargetValidFor(c, s) ==
    IF c = "bgp_community" THEN MatchNewFormat(s) \/ MatchBit32(s) \/ MatchLarge(s)
    ELSE IF c = "bgp_aspath" THEN MatchDotStar(s)
    ELSE IPNetworkVersion(s) # 0

SelectedFamily(c, s) ==
    IF c \in {"bgp_community", "bgp_aspath"} THEN "dual"
    ELSE Family(IPNetworkVersion(s))

C5_MissingTemplatePropagates ==
    (/\ SshDone
     /\ KnownVendor
     /\ cmd \in QueryTypes
     /\ TargetValidFor(cmd, ipprefix)
     /\ cmd \notin DOMAIN GroupOf(device.type, SelectedFamily(cmd, ipprefix)))
        => ssh_result.kind = "raise"

(***************************************************************************)
(* C6: for bgp_community both builders return success with family dual     *)
(* exactly when the target is of one of the three community syntaxes, the  *)
(* message naming the first syntax that matches (new-format, 32 bit,       *)
(* large); every other target gets danger with "<target> is an invalid BGP *)
(* Community Format.".                                                     *)
(***************************************************************************)
C6_CommunitySyntaxDecides ==
    cmd = "bgp_community" =>
        /\ FrrDone =>
              /\ FrrReturned
              /\ IF IsCommunity(ipprefix)
                 THEN /\ frr_result.value[2] = code.success
                      /\ frr_result.value[1] = CommunityMessage(ipprefix)
                      /\ Member(frr_result.value[4], "afi") = JsonString(Chars("dual"))
                 ELSE /\ frr_result.value[2] = code.danger
                      /\ frr_result.value[1] =
                            FStr("", ipprefix, " is an invalid BGP Community Format.")
        /\ (SshDone /\ CompleteVendor) =>
              /\ SshReturned
              /\ IF IsCommunity(ipprefix)
                 THEN /\ ssh_result.value[2] = code.success
                      /\ ssh_result.value[1] = CommunityMessage(ipprefix)
                      /\ ssh_result.group = "dual"
                 ELSE /\ ssh_result.value[2] = code.danger
                      /\ ssh_result.value[1] =
                            FStr("", ipprefix, " is an invalid BGP Community Format.")

(***************************************************************************)
(* C7: for a target that parses as an IPv4 or IPv6 address or prefix and a *)
(* query type among bgp_route, ping, traceroute, frr returns success with  *)
(* afi equal to the address version of the target, and ssh returns success *)
(* with a command rendered from the template group of that same family.    *)
(***************************************************************************)
FrrSuccessWithTargetFamily ==
    /\ FrrReturned
    /\ frr_result.value[2] = code.success
    /\ Member(frr_result.value[4], "afi") =
          JsonString(Chars(Family(IPNetworkVersion(ipprefix))))

\* The command the family's own template gives for this request
CommandFrom(fam) ==
    Substitute(GroupOf(device.type, fam)[cmd],
               [target |-> ipprefix,
                src_addr_ipv4 |-> Chars(device.src_addr_ipv4),
                src_addr_ipv6 |-> Chars(device.src_addr_ipv6)])

SshSuccessFromTargetFamily ==
    /\ SshReturned
    /\ ssh_result.value[2] = code.success
    /\ KnownVendor
    /\ ssh_result.group = Family(IPNetworkVersion(ipprefix))
    /\ cmd \in DOMAIN GroupOf(device.type, Family(IPNetworkVersion(ipprefix)))
    /\ ssh_result.value[5] = CommandFrom(Family(IPNetworkVersion(ipprefix)))

\* C7 as stated: on every device
C7_FamilyFollowsTargetOnEveryDevice ==
    (cmd \in AddressQueries /\ IPNetworkVersion(ipprefix) # 0) =>
        /\ FrrDone => FrrSuccessWithTargetFamily
        /\ SshDone => SshSuccessFromTargetFamily

\* The family's group has a template for the query type, and the template
\* names only fields the builder passes to it
TemplateUsable(c, fam) ==
    /\ KnownVendor
    /\ c \in DOMAIN GroupOf(device.type, fam)
    /\ Placeholders(GroupOf(device.type, fam)[c]) \subseteq PassedFields(c, fam)

\* C7 as amended: the ssh half on a device whose vendor type is in the
\* template store and whose group of the target's family has a usable
\* template for the query type; the frr half on every device.
C7_FamilyFollowsTarget ==
    (cmd \in AddressQueries /\ IPNetworkVersion(ipprefix) # 0) =>
        /\ FrrDone => FrrSuccessWithTargetFamily
        /\ (SshDone /\ TemplateUsable(cmd, Family(IPNetworkVersion(ipprefix))))
              => SshSuccessFromTargetFamily

C7_Witness ==
    /\ cmd = "bgp_route"
    /\ IPNetworkVersion(ipprefix) = 4
    /\ Len(ipprefix) > 1
    /\ device.type = "cisco_ios"
    /\ FrrReturned
    /\ SshReturned
    /\ ssh_result.value[2] = code.success
    /\ ssh_result.group = "ipv4"

(***************************************************************************)
(* C8: for ping and traceroute with a valid address target the source      *)
(* address that goes with the target is of the target's family: frr's      *)
(* query has source = src_addr_ipv4 when afi is ipv4 and src_addr_ipv6     *)
(* when afi is ipv6, and ssh substitutes only the source address of that   *)
(* family; for bgp_community, bgp_aspath and bgp_route the query has no    *)
(* source key.                                                             *)
(***************************************************************************)
C8_SourceFollowsFamily ==
    LET v == IPNetworkVersion(ipprefix)
    IN  /\ (cmd \in {"ping", "traceroute"} /\ v # 0) =>
              /\ FrrReturned =>
                    LET q == frr_result.value[4]
                    IN  /\ Member(q, "afi") = JsonString(Chars(Family(v)))
                        /\ HasKey(q, "source")
                        /\ Member(q, "source") =
                              JsonString(Chars(SourceOf(device, Family(v))))
              /\ (SshDone /\ ssh_result.formatted) =>
                    /\ DOMAIN ssh_result.kwargs = {"target", "src_addr_" \o Family(v)}
                    /\ ssh_result.kwargs["src_addr_" \o Family(v)] =
                          Chars(SourceOf(device, Family(v)))
              /\ (SshReturned /\ ssh_result.value[2] = code.success) =>
                    \A i \in 1..Len(ssh_result.value[5]) :
                        ssh_result.value[5][i] # SourceOf(device, OtherFamily(v))
        /\ (cmd \in {"bgp_community", "bgp_aspath", "bgp_route"} /\ FrrReturned) =>
              ~HasKey(frr_result.value[4], "source")

C8_Witness ==
    /\ cmd = "traceroute"
    /\ IPNetworkVersion(ipprefix) = 6
    /\ FrrReturned
    /\ HasKey(frr_result.value[4], "source")
    /\ SshReturned
    /\ ssh_result.value[2] = code.success
    /\ \E i \in 1..Len(ssh_result.value[5]) :
          ssh_result.value[5][i] = device.src_addr_ipv6

(***************************************************************************)
(* C9: every tuple either builder returns has the documented shape: frr    *)
(* (message, status_code, device_address, query_object), ssh (message,     *)
(* status_code, device_address, vendor_type, command_string); the third    *)
(* element is the device's address and ssh's fourth its vendor type.       *)
(***************************************************************************)
C9_ReturnedTupleShape ==
    /\ FrrReturned =>
          /\ Len(frr_result.value) = 4
          /\ frr_result.value[3] = device.address
    /\ SshReturned =>
          /\ Len(ssh_result.value) = 5
          /\ ssh_result.value[3] = device.address
          /\ ssh_result.value[4] = device.type

(***************************************************************************)
(* C10: on one device whose vendor type is in the template store with      *)
(* complete groups, frr and ssh end the same way for every query type and  *)
(* target: both return a tuple with the same message and the same status   *)
(* code, or neither returns.                                               *)
(***************************************************************************)
C10_BuildersAgree ==
    (CompleteVendor /\ FrrDone /\ SshDone) =>
        \/ /\ FrrReturned
           /\ SshReturned
           /\ frr_result.value[1] = ssh_result.value[1]
           /\ frr_result.value[2] = ssh_result.value[2]
        \/ ~FrrReturned /\ ~SshReturned

====
